---- MODULE Spec2Model ----
(***************************************************************************)
(* A model of pypiserver's WSGI application (pypiserver/_app.py): the      *)
(* POST "/" handler `update` with its sub-handlers file_upload, remove_pkg *)
(* and doc_upload, run by concurrent request threads, and the GET handlers *)
(* of the simple index.  The storage backend (config.backend), the         *)
(* filename parser and the name normalizer live outside _app.py and are    *)
(* modelled from their documented contract.                                *)
(*                                                                         *)
(* Strings are sequences of one-character strings.  "KELVIN" stands for    *)
(* U+212A KELVIN SIGN and "LF" for a line feed.                            *)
(***************************************************************************)
EXTENDS Integers, Sequences, FiniteSets, TLC

VARIABLES
    overwrite,        \* config.overwrite
    authenticate,     \* config.authenticate: the actions that need credentials
    disable_fallback, \* config.disable_fallback
    store,            \* the backend's packages: filename -> content, or Absent
    pc,               \* per request thread: where it is in `update`
    req,              \* per request thread: the request being handled
    resp,             \* per request thread: the last response sent
    nav               \* the client of the GET handlers and the last page it got

vars == <<overwrite, authenticate, disable_fallback, store, pc, req, resp, nav>>

-----------------------------------------------------------------------------
(* Bounds *)

\* concurrent request threads
NThreads == 2
\* distinct file contents a client uploads
NContents == 2
\* redirects a client follows before it gives up
MaxHops == 3

Threads == 1..NThreads
Contents == 1..NContents
Absent == 0

-----------------------------------------------------------------------------
(* Characters and strings *)

LowerAscii == {"a", "b", "c", "i", "k", "p", "s", "z"}
UpperAscii == {"A", "B"}
Digits == {"0", "1", "2"}

\* str.lower() on one character; U+212A lowers to "k"
Lower(c) ==
    CASE c = "A" -> "a"
      [] c = "B" -> "b"
      [] c = "KELVIN" -> "k"
      [] OTHER -> c

\* the code point of a character: str comparison orders by it
Ord(c) ==
    CASE c = "LF" -> 10
      [] c = " " -> 32
      [] c = "!" -> 33
      [] c = "+" -> 43
      [] c = "-" -> 45
      [] c = "." -> 46
      [] c = "0" -> 48
      [] c = "1" -> 49
      [] c = "2" -> 50
      [] c = "A" -> 65
      [] c = "B" -> 66
      [] c = "_" -> 95
      [] c = "a" -> 97
      [] c = "b" -> 98
      [] c = "c" -> 99
      [] c = "i" -> 105
      [] c = "k" -> 107
      [] c = "p" -> 112
      [] c = "s" -> 115
      [] c = "z" -> 122
      [] c = "KELVIN" -> 8490
      [] OTHER -> 65533

DigitVal(c) == Ord(c) - Ord("0")

EndsWith(s, suf) ==
    /\ Len(s) >= Len(suf)
    /\ SubSeq(s, Len(s) - Len(suf) + 1, Len(s)) = suf

DropLast(s, n) == SubSeq(s, 1, Len(s) - n)

-----------------------------------------------------------------------------
(* The filenames, names and versions a client may send *)

ASC == <<".", "a", "s", "c">>
ZIP == <<".", "z", "i", "p">>

F_a2 == <<"a", "-", "2">> \o ZIP
F_a10 == <<"a", "-", "1", "0">> \o ZIP
F_a2asc == F_a2 \o ASC
F_kelvin == <<"KELVIN", "-", "1">> \o ZIP
F_space == <<"a", " ", "1">> \o ZIP
F_nover == <<"a">> \o ZIP
F_lf == F_a2 \o <<"LF">>
F_empty == <<>>

\* no file in the form field (request.files.get(f, None) is None)
NoFile == <<"NOFILE">>

Files == {F_a2, F_a10, F_a2asc, F_kelvin, F_space, F_nover, F_lf, F_empty}
\* the filenames of the uploads' "content" and "gpg_signature" fields
UploadFiles == Files \ {F_a10}
SigFiles == {F_a2asc, F_nover}

\* the documented rule: ASCII letters, digits and _ . ! + -
AsciiAllowed(c) ==
    c \in LowerAscii \cup UpperAscii \cup Digits \cup {"_", ".", "!", "+", "-"}

IsAsciiFilename(f) == Len(f) > 0 /\ \A i \in 1..Len(f) : AsciiAllowed(f[i])

-----------------------------------------------------------------------------
(* is_valid_pkg_filename: re.compile(r"^[a-z0-9_.!+-]+$", re.I).match *)

\* One character against [a-z0-9_.!+-] under re.I on a str pattern: without
\* re.ASCII the case-insensitive range also matches U+0130, U+0131, U+017F
\* and U+212A.
InUploadClass(c) ==
    \/ c \in LowerAscii
    \/ c \in UpperAscii
    \/ c \in {"KELVIN"}
    \/ c \in Digits
    \/ c \in {"_", ".", "!", "+", "-"}

\* "$" matches at the end of the string and before a line feed that ends it
AtDollar(f, n) ==
    \/ n = Len(f)
    \/ n = Len(f) - 1 /\ f[Len(f)] = "LF"

is_valid_pkg_filename(f) ==
    \E n \in 1..Len(f) :
        /\ \A i \in 1..n : InUploadClass(f[i])
        /\ AtDollar(f, n)

-----------------------------------------------------------------------------
(* pkg_helpers, modelled from the documented contract *)

\* the parser's failure (Python's None)
None == [pkgname |-> <<>>, version |-> <<>>]

StripAsc(f) == IF EndsWith(f, ASC) THEN DropLast(f, Len(ASC)) ELSE f

\* positions of a "-" that a digit follows
VersionSplits(stem) ==
    {i \in 2..(Len(stem) - 1) : stem[i] = "-" /\ stem[i + 1] \in Digits}

Min(S) == CHOOSE x \in S : \A y \in S : x <= y

\* {name}-{version}.{ext}, a trailing .asc ignored; None when it does not parse
guess_pkgname_and_version(f) ==
    LET base == StripAsc(f) IN
    IF ~EndsWith(base, ZIP) THEN None
    ELSE LET stem == DropLast(base, Len(ZIP)) IN
         IF VersionSplits(stem) = {} THEN None
         ELSE LET i == Min(VersionSplits(stem)) IN
              [pkgname |-> SubSeq(stem, 1, i - 1),
               version |-> SubSeq(stem, i + 1, Len(stem))]

RECURSIVE CollapseSeps(_)
\* re.sub(r"[-_.]+", "-", name)
CollapseSeps(s) ==
    IF s = <<>> THEN <<>>
    ELSE IF s[1] \in {"-", "_", "."}
         THEN IF Len(s) > 1 /\ s[2] \in {"-", "_", "."}
              THEN CollapseSeps(Tail(s))
              ELSE <<"-">> \o CollapseSeps(Tail(s))
         ELSE <<s[1]>> \o CollapseSeps(Tail(s))

normalize_pkgname_for_url(name) ==
    LET c == CollapseSeps(name) IN [i \in 1..Len(c) |-> Lower(c[i])]

-----------------------------------------------------------------------------
(* config.backend, modelled from the documented contract *)

\* the files a directory scan keeps: those the parser accepts
Storable == {f \in Files : guess_pkgname_and_version(f) # None}

get_all_packages(st) == {f \in Storable : st[f] # Absent}

exists(st, f) == f \in get_all_packages(st)

find_project_packages(st, project) ==
    {f \in get_all_packages(st) :
        normalize_pkgname_for_url(guess_pkgname_and_version(f).pkgname) = project}

find_version(st, name, version) ==
    {f \in find_project_packages(st, name) :
        guess_pkgname_and_version(f).version = version}

\* fails (InvalidFilename, AlreadyExists) by leaving the catalog as it is
add_package(st, f, data) ==
    IF f \notin Storable THEN st
    ELSE IF st[f] # Absent /\ ~overwrite THEN st
    ELSE [st EXCEPT ![f] = data]

\* deleting a file that has vanished is already satisfied
remove_package(st, f) ==
    IF f \in Storable THEN [st EXCEPT ![f] = Absent] ELSE st

-----------------------------------------------------------------------------
(* Requests and responses *)

\* request.auth: absent, a user without a password, a rejected or an accepted pair
Creds == {"none", "nopass", "bad", "good"}

\* config.auther(*request.auth)
auther(a) == a = "good"

\* the "content" field of a doc_upload: none, or what the bytes are
Docs == {"missing", "notzip", "noindex", "index"}

Names == {<<>>, <<"a">>, <<"k">>}
Versions == {<<>>, <<"2">>, <<"1", "0">>}

NoReq ==
    [action |-> "", pkg |-> NoFile, sig |-> NoFile, data |-> Absent,
     doc |-> "missing", name |-> <<>>, version |-> <<>>, idx |-> 0, pkgs |-> {}]

Blank(action) == [NoReq EXCEPT !.action = action]

UploadRequests ==
    {[Blank("file_upload") EXCEPT !.pkg = p, !.sig = s, !.data = d] :
        p \in UploadFiles \cup {NoFile}, s \in SigFiles \cup {NoFile}, d \in Contents}

RemoveRequests ==
    {[Blank("remove_pkg") EXCEPT !.name = n, !.version = v] :
        n \in Names, v \in Versions}

DocRequests == {[Blank("doc_upload") EXCEPT !.doc = z] : z \in Docs}

OtherRequests == {Blank(x) : x \in {"", "verify", "submit", "bogus"}}

Requests == UploadRequests \cup RemoveRequests \cup DocRequests \cup OtherRequests

\* a response: the status, the message and the filename of its body, and
\* whether the request called the backend before it was sent
Resp(status, msg, file, queried) ==
    [status |-> status, msg |-> msg, file |-> file, queried |-> queried]
NoResp == Resp(0, "", NoFile, FALSE)

-----------------------------------------------------------------------------
(* class auth *)

\* protector without the call of config.auther
protector_unchecked(action, a) ==
    IF action \in authenticate
    THEN IF a = "none" \/ a = "nopass" THEN 401 ELSE 0
    ELSE 0

\* the status protector raises, 0 when it calls the method
protector(action, a) ==
    IF action \in authenticate
    THEN IF a = "none" \/ a = "nopass" THEN 401
         ELSE IF ~auther(a) THEN 403
         ELSE 0
    ELSE 0

-----------------------------------------------------------------------------
(* update and its sub-handlers.  A step is the handler's code up to and    *)
(* including its next call of the backend.                                 *)

\* the request ends: HTTPError(status, msg), or the `return ""` of update
Finish(t, r) ==
    /\ pc' = [pc EXCEPT ![t] = "idle"]
    /\ req' = [req EXCEPT ![t] = NoReq]
    /\ resp' = [resp EXCEPT ![t] = r]

Goto(t, label, rq) ==
    /\ pc' = [pc EXCEPT ![t] = label]
    /\ req' = [req EXCEPT ![t] = rq]
    /\ resp' = [resp EXCEPT ![t] = NoResp]

\* the file of the loop's current iteration
Current(rq) == IF rq.idx = 1 THEN rq.pkg ELSE rq.sig

\* file_upload without the check of backend.exists
upload_check_noexists(t, rq) ==
    LET uf == Current(rq) IN
    IF ~is_valid_pkg_filename(uf) \/ guess_pkgname_and_version(uf) = None
    THEN Finish(t, Resp(400, "Bad filename", uf, rq.idx > 1)) /\ UNCHANGED store
    ELSE Goto(t, "add", rq) /\ UNCHANGED store

\* one iteration of the loop of file_upload up to the call of add_package
upload_check(t, rq) ==
    LET uf == Current(rq) IN
    IF ~is_valid_pkg_filename(uf) \/ guess_pkgname_and_version(uf) = None
    THEN Finish(t, Resp(400, "Bad filename", uf, rq.idx > 1)) /\ UNCHANGED store
    ELSE IF ~overwrite /\ exists(store, uf)
    THEN Finish(t, Resp(409, "already exists", uf, TRUE)) /\ UNCHANGED store
    ELSE Goto(t, "add", rq) /\ UNCHANGED store

\* file_upload without the check of the signature's filename
file_upload_nosigcheck(t, rq) ==
    IF rq.pkg = NoFile
    THEN Finish(t, Resp(400, "Missing content", NoFile, FALSE)) /\ UNCHANGED store
    ELSE upload_check(t, [rq EXCEPT !.idx = 1])

file_upload(t, rq) ==
    IF rq.pkg = NoFile
    THEN Finish(t, Resp(400, "Missing content", NoFile, FALSE)) /\ UNCHANGED store
    ELSE IF rq.sig # NoFile /\ rq.pkg \o ASC # rq.sig
    THEN Finish(t, Resp(400, "Unrelated signature", rq.sig, FALSE)) /\ UNCHANGED store
    ELSE upload_check(t, [rq EXCEPT !.idx = 1])

\* remove_pkg that takes an absent target for removed
remove_pkg_idempotent(t, rq) ==
    IF rq.name = <<>> \/ rq.version = <<>>
    THEN Finish(t, Resp(400, "Missing name/version", NoFile, FALSE)) /\ UNCHANGED store
    ELSE LET pkgs == find_version(store, rq.name, rq.version) IN
         IF pkgs = {}
         THEN Finish(t, Resp(200, "", NoFile, TRUE)) /\ UNCHANGED store
         ELSE Goto(t, "remove", [rq EXCEPT !.pkgs = pkgs]) /\ UNCHANGED store

remove_pkg(t, rq) ==
    IF rq.name = <<>> \/ rq.version = <<>>
    THEN Finish(t, Resp(400, "Missing name/version", NoFile, FALSE)) /\ UNCHANGED store
    ELSE LET pkgs == find_version(store, rq.name, rq.version) IN
         IF pkgs = {}
         THEN Finish(t, Resp(404, "not found", NoFile, TRUE)) /\ UNCHANGED store
         ELSE Goto(t, "remove", [rq EXCEPT !.pkgs = pkgs]) /\ UNCHANGED store

\* doc_upload without the look into the archive
doc_upload_unchecked(t, rq) ==
    IF rq.doc = "missing"
    THEN Finish(t, Resp(400, "Missing content", NoFile, FALSE)) /\ UNCHANGED store
    ELSE Finish(t, Resp(200, "", NoFile, FALSE)) /\ UNCHANGED store

doc_upload(t, rq) ==
    IF rq.doc = "missing"
    THEN Finish(t, Resp(400, "Missing content", NoFile, FALSE)) /\ UNCHANGED store
    ELSE IF rq.doc # "index"
    THEN Finish(t, Resp(400, "not a zip file", NoFile, FALSE)) /\ UNCHANGED store
    ELSE Finish(t, Resp(200, "", NoFile, FALSE)) /\ UNCHANGED store

\* the decorator's wrapper: a thread takes a POST "/" and auth("update") runs
protect(t, a) ==
    /\ pc[t] = "idle"
    /\ IF protector("update", a) # 0
       THEN Finish(t, Resp(protector("update", a), "", NoFile, FALSE))
       ELSE Goto(t, "update", NoReq)
    /\ UNCHANGED <<overwrite, authenticate, disable_fallback, store, nav>>

\* the body of update: the dispatch on the form's ":action"
update(t, rq) ==
    /\ pc[t] = "update"
    /\ CASE rq.action = "" ->
                Finish(t, Resp(400, "Missing action", NoFile, FALSE)) /\ UNCHANGED store
          [] rq.action \in {"verify", "submit"} ->
                Finish(t, Resp(200, "", NoFile, FALSE)) /\ UNCHANGED store
          [] rq.action = "doc_upload" -> doc_upload(t, rq)
          [] rq.action = "remove_pkg" -> remove_pkg(t, rq)
          [] rq.action = "file_upload" -> file_upload(t, rq)
          [] OTHER ->
                Finish(t, Resp(400, "Unsupported action", NoFile, FALSE))
                /\ UNCHANGED store
    /\ UNCHANGED <<overwrite, authenticate, disable_fallback, nav>>

\* an upload acknowledged without the call of add_package
upload_add_skip(t) ==
    /\ pc[t] = "add"
    /\ store' = store
    /\ IF req[t].idx = 1 /\ req[t].sig # NoFile
       THEN Goto(t, "check", [req[t] EXCEPT !.idx = 2])
       ELSE Finish(t, Resp(200, "", NoFile, TRUE))
    /\ UNCHANGED <<overwrite, authenticate, disable_fallback, nav>>

\* config.backend.add_package(uf.raw_filename, uf.file), then the loop goes on
upload_add(t) ==
    /\ pc[t] = "add"
    /\ store' = add_package(store, Current(req[t]), req[t].data)
    /\ IF req[t].idx = 1 /\ req[t].sig # NoFile
       THEN Goto(t, "check", [req[t] EXCEPT !.idx = 2])
       ELSE Finish(t, Resp(200, "", NoFile, TRUE))
    /\ UNCHANGED <<overwrite, authenticate, disable_fallback, nav>>

\* the loop's iteration for the signature
upload_next(t) ==
    /\ pc[t] = "check"
    /\ upload_check(t, req[t])
    /\ UNCHANGED <<overwrite, authenticate, disable_fallback, nav>>

\* one config.backend.remove_package(pkg) of the loop of remove_pkg
remove_next(t) ==
    /\ pc[t] = "remove"
    /\ \E f \in req[t].pkgs :
        /\ store' = remove_package(store, f)
        /\ IF req[t].pkgs = {f}
           THEN Finish(t, Resp(200, "", NoFile, TRUE))
           ELSE Goto(t, "remove", [req[t] EXCEPT !.pkgs = @ \ {f}])
    /\ UNCHANGED <<overwrite, authenticate, disable_fallback, nav>>

-----------------------------------------------------------------------------
(* Version and filename order, modelled from the documented contract *)

RECURSIVE ReleaseOf(_, _, _)
\* the release numbers of a dotted version string, left to right
ReleaseOf(v, acc, cur) ==
    IF v = <<>> THEN Append(acc, cur)
    ELSE IF v[1] = "." THEN ReleaseOf(Tail(v), Append(acc, cur), 0)
    ELSE ReleaseOf(Tail(v), acc, cur * 10 + DigitVal(v[1]))

RECURSIVE StripZeros(_)
StripZeros(r) ==
    IF r # <<>> /\ r[Len(r)] = 0 THEN StripZeros(DropLast(r, 1)) ELSE r

\* numeric release segments; 1.0 and 1.0.0 order alike
parsed_version(f) == StripZeros(ReleaseOf(guess_pkgname_and_version(f).version, <<>>, 0))

RECURSIVE TupleLess(_, _)
\* Python's order on tuples of integers
TupleLess(x, y) ==
    IF y = <<>> THEN FALSE
    ELSE IF x = <<>> THEN TRUE
    ELSE IF x[1] # y[1] THEN x[1] < y[1]
    ELSE TupleLess(Tail(x), Tail(y))

\* Python's order on str: by code point, a prefix first
StrLess(x, y) ==
    TupleLess([i \in 1..Len(x) |-> Ord(x[i])], [i \in 1..Len(y) |-> Ord(y[i])])

\* the orders a backend may return a set of packages in
Orders(S) ==
    {o \in [1..Cardinality(S) -> S] : \A i, j \in 1..Cardinality(S) : i # j => o[i] # o[j]}

\* key=lambda x: (x.parsed_version, x.relfn) of simple
SimpleKeyLess(x, y) ==
    \/ TupleLess(parsed_version(x), parsed_version(y))
    \/ parsed_version(x) = parsed_version(y) /\ StrLess(x, y)

\* key=lambda x: x.parsed_version, reverse=True of json_info
JsonKeyLess(x, y) == TupleLess(parsed_version(y), parsed_version(x))

\* key=lambda x: (os.path.dirname(x.relfn), x.pkgname, x.parsed_version) of
\* list_packages; the files lie in the root itself
PackagesKeyLess(x, y) ==
    LET nx == guess_pkgname_and_version(x).pkgname
        ny == guess_pkgname_and_version(y).pkgname
    IN \/ StrLess(nx, ny)
       \/ nx = ny /\ TupleLess(parsed_version(x), parsed_version(y))

KeyLess(key, x, y) ==
    CASE key = "simple" -> SimpleKeyLess(x, y)
      [] key = "json" -> JsonKeyLess(x, y)
      [] OTHER -> PackagesKeyLess(x, y)

RECURSIVE InsertSorted(_, _, _)
\* x put behind the last element that x is not less than
InsertSorted(s, x, key) ==
    IF s = <<>> THEN <<x>>
    ELSE IF KeyLess(key, x, s[Len(s)])
         THEN Append(InsertSorted(DropLast(s, 1), x, key), s[Len(s)])
         ELSE Append(s, x)

RECURSIVE Sorted(_, _, _)
\* sorted(): stable, ascending by the key; acc is the sorted prefix
Sorted(s, acc, key) ==
    IF s = <<>> THEN acc
    ELSE Sorted(Tail(s), InsertSorted(acc, s[1], key), key)

-----------------------------------------------------------------------------
(* The GET handlers.  A handler is a function of the request, of what the  *)
(* backend returns to it and of the configuration.                         *)

\* the project segments of the URLs a client asks for
Projects ==
    {<<"a">>, <<"A">>, <<"b">>, <<"A", ".", "_", "B">>, <<"a", "-", "b">>,
     <<"k">>, <<"KELVIN">>}

\* a request (status 0) and, once served, its response; seg is the URL's
\* variable segment: a project or a filename
Page(route, seg, a, hops) ==
    [route |-> route, seg |-> seg, auth |-> a, hops |-> hops,
     status |-> 0, location |-> <<>>, links |-> <<>>, numpkgs |-> 0,
     queried |-> FALSE]

NoNav == Page("", <<>>, "none", 0)

\* bottle.redirect without a code: 303 under HTTP/1.1, else 302
FallbackCodes == {302, 303}

\* simple without sorted(): the links in the backend's order
simple_unsorted(p, order, code) ==
    IF protector("list", p.auth) # 0
    THEN [p EXCEPT !.status = protector("list", p.auth)]
    ELSE LET normalized == normalize_pkgname_for_url(p.seg) IN
         IF p.seg # normalized
         THEN [p EXCEPT !.status = 301, !.location = normalized]
         ELSE IF order = <<>>
              THEN IF ~disable_fallback
                   THEN [p EXCEPT !.status = code, !.queried = TRUE]
                   ELSE [p EXCEPT !.status = 404, !.queried = TRUE]
              ELSE [p EXCEPT !.status = 200, !.links = order, !.queried = TRUE]

\* simple that redirects to the project as it was asked for
simple_redirect_raw(p, order, code) ==
    IF protector("list", p.auth) # 0
    THEN [p EXCEPT !.status = protector("list", p.auth)]
    ELSE LET normalized == normalize_pkgname_for_url(p.seg) IN
         IF p.seg # normalized
         THEN [p EXCEPT !.status = 301, !.location = p.seg]
         ELSE LET packages == Sorted(order, <<>>, "simple") IN
              IF packages = <<>>
              THEN IF ~disable_fallback
                   THEN [p EXCEPT !.status = code, !.queried = TRUE]
                   ELSE [p EXCEPT !.status = 404, !.queried = TRUE]
              ELSE [p EXCEPT !.status = 200, !.links = packages, !.queried = TRUE]

\* /simple/:project/ ; order is the sequence find_project_packages returns
simple(p, order, code) ==
    IF protector("list", p.auth) # 0
    THEN [p EXCEPT !.status = protector("list", p.auth)]
    ELSE LET normalized == normalize_pkgname_for_url(p.seg) IN
         IF p.seg # normalized
         THEN [p EXCEPT !.status = 301, !.location = normalized]
         ELSE LET packages == Sorted(order, <<>>, "simple") IN
              IF packages = <<>>
              THEN IF ~disable_fallback
                   THEN [p EXCEPT !.status = code, !.queried = TRUE]
                   ELSE [p EXCEPT !.status = 404, !.queried = TRUE]
              ELSE [p EXCEPT !.status = 200, !.links = packages, !.queried = TRUE]

\* /:project/json ; order is the sequence find_project_packages returns
json_info(p, order) ==
    IF protector("list", p.auth) # 0
    THEN [p EXCEPT !.status = protector("list", p.auth)]
    ELSE LET normalized == normalize_pkgname_for_url(p.seg) IN
         IF p.seg # normalized
         THEN [p EXCEPT !.status = 301, !.location = normalized]
         ELSE LET packages == Sorted(order, <<>>, "json") IN
              IF packages = <<>>
              THEN [p EXCEPT !.status = 404, !.queried = TRUE]
              ELSE [p EXCEPT !.status = 200, !.links = packages, !.queried = TRUE]

\* /packages/ ; order is the sequence get_all_packages returns
list_packages(p, order) ==
    IF protector("list", p.auth) # 0
    THEN [p EXCEPT !.status = protector("list", p.auth)]
    ELSE [p EXCEPT !.status = 200, !.links = Sorted(order, <<>>, "packages"),
                   !.queried = TRUE]

\* server_static without the search of the entries
server_static_unlisted(p, entries) ==
    IF protector("download", p.auth) # 0
    THEN [p EXCEPT !.status = protector("download", p.auth)]
    ELSE [p EXCEPT !.status = 200, !.links = <<p.seg>>, !.queried = TRUE]

\* /packages/:filename ; entries is what get_all_packages returns
server_static(p, entries) ==
    IF protector("download", p.auth) # 0
    THEN [p EXCEPT !.status = protector("download", p.auth)]
    ELSE IF \E x \in entries : x = p.seg
    THEN [p EXCEPT !.status = 200, !.links = <<p.seg>>, !.queried = TRUE]
    ELSE [p EXCEPT !.status = 404, !.queried = TRUE]

\* config.backend.package_count()
package_count(st) == Cardinality(get_all_packages(st))

\* / ; the welcome page, rendered from NUMPKGS among others; no auth decorator
root(p, count) == [p EXCEPT !.status = 200, !.numpkgs = count, !.queried = TRUE]

\* /:project ; redirect to the project's page under /simple/; no auth decorator
bad_url(p, code) == [p EXCEPT !.status = code, !.location = p.seg]

\* the responses the request p can get from the catalog st
Responses(p, st) ==
    CASE p.route = "simple" ->
            {simple(p, o, c) : o \in Orders(find_project_packages(st, p.seg)),
                               c \in FallbackCodes}
      [] p.route = "json" ->
            {json_info(p, o) : o \in Orders(find_project_packages(st, p.seg))}
      [] p.route = "packages" ->
            {list_packages(p, o) : o \in Orders(get_all_packages(st))}
      [] p.route = "root" -> {root(p, package_count(st))}
      [] p.route = "bad_url" -> {bad_url(p, c) : c \in FallbackCodes}
      [] OTHER -> {server_static(p, get_all_packages(st))}

Serve(p) ==
    /\ nav' \in Responses(p, store)
    /\ UNCHANGED <<overwrite, authenticate, disable_fallback, store, pc, req, resp>>

\* a client asks for a project's page
GetProject(route, project, a) == Serve(Page(route, project, a, 0))

\* a client asks for the list of all packages
GetPackages(a) == Serve(Page("packages", <<>>, a, 0))

\* a client asks for a file
GetFile(f, a) == Serve(Page("download", f, a, 0))

\* a client asks for the welcome page
GetRoot(a) == Serve(Page("root", <<>>, a, 0))

\* a client asks for a URL directly under the root
GetBadUrl(project, a) == Serve(Page("bad_url", project, a, 0))

\* a client follows a 301 to the same route
Follow ==
    /\ nav.status = 301
    /\ nav.hops < MaxHops
    /\ Serve(Page(nav.route, nav.location, nav.auth, nav.hops + 1))

-----------------------------------------------------------------------------
(* Specification *)

UpdateAuthConfigs == {{}, {"update"}}
ReadAuthConfigs == {{"update"}, {"update", "list", "download"}}

Idle ==
    /\ pc = [t \in Threads |-> "idle"]
    /\ req = [t \in Threads |-> NoReq]
    /\ resp = [t \in Threads |-> NoResp]
    /\ nav = NoNav

\* the server starts on a directory that may already hold earlier uploads
\* of the files the requests name
Init ==
    /\ overwrite \in BOOLEAN
    /\ authenticate \in UpdateAuthConfigs
    /\ disable_fallback = FALSE
    /\ store \in {st \in [Storable -> {Absent, 1}] :
                    \A f \in Storable \ UploadFiles : st[f] = Absent}
    /\ Idle

\* the same, for the handlers that only read: what a file holds is not read
InitRead ==
    /\ overwrite = FALSE
    /\ authenticate \in ReadAuthConfigs
    /\ disable_fallback \in BOOLEAN
    /\ store \in [Storable -> {Absent, 1}]
    /\ Idle

\* what request thread t may do next
Step(t) ==
    \/ \E a \in Creds : protect(t, a)
    \/ \E rq \in Requests : update(t, rq)
    \/ upload_add(t)
    \/ upload_next(t)
    \/ remove_next(t)

Next == \E t \in Threads : Step(t)

\* one request after the other
NextSeq == Step(1)

NextRead ==
    \/ \E route \in {"simple", "json"}, project \in Projects, a \in Creds :
          GetProject(route, project, a)
    \/ \E a \in Creds : GetPackages(a)
    \/ \E f \in Files, a \in Creds : GetFile(f, a)
    \/ Follow

\* the server where downloads may need credentials
InitServe ==
    /\ overwrite \in BOOLEAN
    /\ authenticate \in {{}, {"download"}}
    /\ disable_fallback = FALSE
    /\ store \in {st \in [Storable -> {Absent, 1}] :
                    \A f \in Storable \ UploadFiles : st[f] = Absent}
    /\ Idle

\* uploads and removals, one request at a time, and downloads between them
NextServe ==
    \/ Step(1)
    \/ \E f \in Files, a \in Creds : GetFile(f, a)

\* the catalogs a server may hold
Catalogs == [Storable -> {Absent, 1}]

\* the server where listing needs credentials
InitAnon ==
    /\ overwrite = FALSE
    /\ authenticate \in {{"list"}, {"update", "list", "download"}}
    /\ disable_fallback \in BOOLEAN
    /\ store \in Catalogs
    /\ Idle

\* every GET route a client may ask for
NextAnon ==
    \/ NextRead
    \/ \E a \in Creds : GetRoot(a)
    \/ \E project \in Projects, a \in Creds : GetBadUrl(project, a)

\* the POST "/" handlers on concurrent request threads
Spec == Init /\ [][Next]_vars

\* the POST "/" handlers, one request at a time
SpecSeq == Init /\ [][NextSeq]_vars

\* the GET handlers and a client that follows their redirects
SpecRead == InitRead /\ [][NextRead]_vars

\* POST "/" one request at a time, and GET /packages/:filename
SpecServe == InitServe /\ [][NextServe]_vars

\* the GET handlers of a server where listing needs credentials
SpecAnon == InitAnon /\ [][NextAnon]_vars

-----------------------------------------------------------------------------
(* Properties *)

Range(q) == {q[i] : i \in 1..Len(q)}

\* the upload gets past the checks that come before backend.exists
ReachesExists(rq) ==
    /\ rq.pkg # NoFile
    /\ rq.sig = NoFile \/ rq.sig = rq.pkg \o ASC
    /\ is_valid_pkg_filename(rq.pkg)
    /\ guess_pkgname_and_version(rq.pkg) # None

CheckedUploads == {rq \in UploadRequests : ReachesExists(rq)}

\* thread t leaves the dispatch of update in this step
Dispatches(t) == pc[t] = "update" /\ pc'[t] # "update"

\* C1: an upload of a file the backend already holds is answered 409 without
\* a call of add_package when overwrite is off; when overwrite is on it goes
\* on to add_package, which stores the uploaded content in place of the old.
C1_ExistingUpload ==
    [][\A t \in Threads :
         /\ Dispatches(t) =>
              \A rq \in CheckedUploads :
                 (exists(store, rq.pkg) /\ update(t, rq)) =>
                    IF overwrite
                    THEN pc'[t] = "add" /\ Current(req'[t]) = rq.pkg /\ store' = store
                    ELSE /\ resp'[t] = Resp(409, "already exists", rq.pkg, TRUE)
                         /\ pc'[t] = "idle"
                         /\ store' = store
         /\ (pc[t] = "check" /\ exists(store, req[t].sig) /\ upload_next(t)) =>
                 IF overwrite
                 THEN pc'[t] = "add" /\ Current(req'[t]) = req[t].sig /\ store' = store
                 ELSE /\ resp'[t] = Resp(409, "already exists", req[t].sig, TRUE)
                      /\ pc'[t] = "idle"
                      /\ store' = store
         /\ (pc[t] = "add" /\ overwrite /\ upload_add(t)) =>
                 store' = [store EXCEPT ![Current(req[t])] = req[t].data]
      ]_vars

C1_Witness ==
    /\ ~overwrite
    /\ \E t \in Threads :
          /\ resp[t].status = 409
          /\ exists(store, resp[t].file)
          /\ pc[t] = "idle"

\* C2: with overwrite off, two requests never both stand before add_package
\* for the same filename: all but one were answered 409.
C2_OneAdder ==
    ~overwrite =>
        \A t, u \in Threads :
            (t # u /\ pc[t] = "add" /\ pc[u] = "add") =>
                Current(req[t]) # Current(req[u])

\* C3: the step of an upload that calls add_package leaves the file listed by
\* get_all_packages, by the /packages/ page and served by /packages/<file>,
\* and a listed file stops being listed only by a remove_package of it.
C3_UploadVisible ==
    [][/\ \A t \in Threads :
            (pc[t] = "add" /\ upload_add(t)) =>
               LET f == Current(req[t]) IN
               /\ f \in get_all_packages(store')
               /\ \A pg \in Responses(Page("packages", <<>>, "good", 0), store') :
                     pg.status = 200 /\ f \in Range(pg.links)
               /\ \A pg \in Responses(Page("download", f, "good", 0), store') :
                     pg.status = 200
       /\ \A f \in Storable :
            (exists(store, f) /\ ~exists(store', f)) =>
               \E t \in Threads : pc[t] = "remove" /\ f \in req[t].pkgs /\ remove_next(t)
      ]_vars

C3_Witness ==
    \E t \in Threads :
        /\ pc[t] = "check"
        /\ exists(store, req[t].pkg)
        /\ store[req[t].pkg] = req[t].data

\* C4: an upload whose content filename is not a non-empty string of ASCII
\* letters, digits and _ . ! + - is answered 400 "Bad filename" and goes no
\* further.
C4_AsciiOnly ==
    [][\A t \in Threads :
         Dispatches(t) =>
            \A rq \in UploadRequests :
               (/\ rq.pkg # NoFile
                /\ rq.sig = NoFile \/ rq.sig = rq.pkg \o ASC
                /\ ~IsAsciiFilename(rq.pkg)
                /\ update(t, rq)) =>
                  /\ resp'[t] = Resp(400, "Bad filename", rq.pkg, FALSE)
                  /\ pc'[t] = "idle"
                  /\ store' = store
      ]_vars

\* C5: an upload with a signature whose filename is not the content's filename
\* followed by .asc is answered 400, ends there and stores nothing.
C5_UnrelatedSignature ==
    [][\A t \in Threads :
         Dispatches(t) =>
            \A rq \in UploadRequests :
               (/\ rq.pkg # NoFile
                /\ rq.sig # NoFile
                /\ rq.sig # rq.pkg \o ASC
                /\ update(t, rq)) =>
                  /\ resp'[t].status = 400
                  /\ ~resp'[t].queried
                  /\ pc'[t] = "idle"
                  /\ store' = store
      ]_vars

C5_Witness ==
    \E t \in Threads :
        /\ resp[t].status = 400
        /\ resp[t].msg = "Unrelated signature"
        /\ pc[t] = "idle"

\* C6: a remove_pkg without name or version is answered 400 before the backend
\* is asked; one for which find_version finds nothing is answered 404; neither
\* changes the catalog.  A remove_pkg that found packages removes them, and
\* when it has returned find_version finds nothing for its name and version,
\* so that the same request is then answered 404.
C6_RemoveAbsent ==
    [][/\ Dispatches(1) =>
          \A rq \in RemoveRequests :
            update(1, rq) =>
               IF rq.name = <<>> \/ rq.version = <<>>
               THEN /\ resp'[1] = Resp(400, "Missing name/version", NoFile, FALSE)
                    /\ pc'[1] = "idle"
                    /\ store' = store
               ELSE IF find_version(store, rq.name, rq.version) = {}
               THEN /\ resp'[1].status = 404
                    /\ pc'[1] = "idle"
                    /\ store' = store
               ELSE /\ pc'[1] = "remove"
                    /\ req'[1].pkgs = find_version(store, rq.name, rq.version)
       /\ (pc[1] = "remove" /\ pc'[1] = "idle" /\ remove_next(1)) =>
               /\ resp'[1].status = 200
               /\ find_version(store', req[1].name, req[1].version) = {}
      ]_vars

C6_Witness ==
    /\ resp[1].status = 404
    /\ resp[1].msg = "not found"
    /\ pc[1] = "idle"

\* the credentials the auther accepts, where the action asks for any
Authorized(action, a) == action \notin authenticate \/ a = "good"

\* C7: where update needs authentication, a request without credentials or
\* without a password is answered 401 and one with rejected credentials 403,
\* and the handler is not entered; a thread enters the handler only with
\* authorized credentials, and only a thread inside the handler reaches
\* add_package or remove_package.
C7_AuthFirst ==
    [][\A t \in Threads :
         /\ \A a \in Creds :
              ("update" \in authenticate /\ a # "good" /\ protect(t, a)) =>
                 /\ resp'[t].status = (IF a \in {"none", "nopass"} THEN 401 ELSE 403)
                 /\ pc'[t] = "idle"
                 /\ store' = store
         /\ (pc[t] = "idle" /\ pc'[t] # "idle") =>
                 /\ pc'[t] = "update"
                 /\ store' = store
                 /\ \E a \in Creds : Authorized("update", a) /\ protect(t, a)
         /\ (pc'[t] \in {"add", "check", "remove"}) =>
                 pc[t] \in {"update", "add", "check", "remove"}
       ]_vars
    /\ [][store' # store => \E t \in Threads : pc[t] \in {"add", "remove"}]_vars

C7_Witness ==
    /\ "update" \in authenticate
    /\ \E t \in Threads : resp[t].status = 403 /\ pc[t] = "idle"
    /\ \E t \in Threads : pc[t] = "add"

\* C8: the page of a project lists each package find_project_packages returns
\* for it once, ascending by parsed_version and, among equal versions, by
\* filename.
C8_SimpleSorted ==
    (nav.route = "simple" /\ nav.queried) =>
        /\ nav.status = 200 <=> find_project_packages(store, nav.seg) # {}
        /\ Range(nav.links) = find_project_packages(store, nav.seg)
        /\ Len(nav.links) = Cardinality(find_project_packages(store, nav.seg))
        /\ \A i, j \in 1..Len(nav.links) :
              i < j =>
                 \/ TupleLess(parsed_version(nav.links[i]), parsed_version(nav.links[j]))
                 \/ /\ parsed_version(nav.links[i]) = parsed_version(nav.links[j])
                    /\ StrLess(nav.links[i], nav.links[j])

C8_Witness ==
    /\ nav.route = "simple"
    /\ nav.status = 200
    /\ nav.links = <<F_a2, F_a2asc, F_a10>>

\* C9: a project segment that is not in normalized form is answered 301 to
\* its normalized form before the catalog is asked, and the request a client
\* sends on that redirect is not redirected again: it ends in a listing, a 404
\* or the fallback.
C9_OneRedirect ==
    nav.route \in {"simple", "json"} =>
        /\ (protector("list", nav.auth) = 0
               /\ nav.seg # normalize_pkgname_for_url(nav.seg)) =>
              /\ nav.status = 301
              /\ nav.location = normalize_pkgname_for_url(nav.seg)
              /\ ~nav.queried
        /\ nav.status = 301 => nav.seg # normalize_pkgname_for_url(nav.seg)
        /\ nav.hops <= 1
        /\ nav.hops = 1 => nav.status \in {200, 404} \cup FallbackCodes

C9_Witness ==
    /\ nav.route = "simple"
    /\ nav.hops = 1
    /\ nav.status = 200

\* C10: an upload that ends in 400 or 409 after its first file went to
\* add_package does not leave that file stored.
C10_NoPartialUpload ==
    [][\A t \in Threads :
         (pc[t] = "check" /\ resp'[t].status \in {400, 409} /\ upload_next(t)) =>
            ~exists(store', req[t].pkg)
      ]_vars

\* the response update sends for an ":action" that is neither file_upload
\* nor remove_pkg
PlainResponse(rq) ==
    CASE rq.action = "" -> Resp(400, "Missing action", NoFile, FALSE)
      [] rq.action \in {"verify", "submit"} -> Resp(200, "", NoFile, FALSE)
      [] rq.action = "doc_upload" ->
            IF rq.doc = "missing" THEN Resp(400, "Missing content", NoFile, FALSE)
            ELSE IF rq.doc = "index" THEN Resp(200, "", NoFile, FALSE)
            ELSE Resp(400, "not a zip file", NoFile, FALSE)
      [] OTHER -> Resp(400, "Unsupported action", NoFile, FALSE)

\* C11: a POST "/" whose ":action" is missing or unsupported is answered 400,
\* verify and submit are answered with an empty success, doc_upload is
\* answered 400 unless its content is a zip archive with index.html; none of
\* them calls the backend or changes the packages, and a step that changes the
\* packages belongs to a file_upload or a remove_pkg.
C11_OnlyUploadAndRemoveStore ==
    [][/\ \A t \in Threads :
            Dispatches(t) =>
               \A rq \in DocRequests \cup OtherRequests :
                  update(t, rq) =>
                     /\ resp'[t] = PlainResponse(rq)
                     /\ pc'[t] = "idle"
                     /\ store' = store
       /\ store' # store =>
            \E t \in Threads :
               \/ req[t].action = "file_upload" /\ upload_add(t)
               \/ req[t].action = "remove_pkg" /\ remove_next(t)
      ]_vars

C11_Witness ==
    /\ get_all_packages(store) # {}
    /\ \E t \in Threads :
          resp[t] = Resp(200, "", NoFile, FALSE) /\ pc[t] = "idle"
    /\ \E t \in Threads :
          resp[t].msg = "not a zip file" /\ pc[t] = "idle"

\* what a download of f gets from the catalog st with credentials a
Download(f, a, st) == Responses(Page("download", f, a, 0), st)

RequestOf(pg) == Page(pg.route, pg.seg, pg.auth, pg.hops)

\* C13: where "list" needs authentication, what a request without accepted
\* credentials is answered is what it would be answered by a server holding
\* any other packages.
C13_AnonymousIndependent ==
    [][("list" \in authenticate /\ ~auther(nav'.auth) /\ Serve(RequestOf(nav'))) =>
          \A st \in Catalogs : nav' \in Responses(RequestOf(nav'), st)
      ]_vars

====
